---- MODULE Spec2Model ----
(***************************************************************************)
(* Model of the ferrer resource-location runtime: pattern matching, the    *)
(* registry and its resolver, Domain.bind, Ingress.externalize /           *)
(* Context.find and, above all, the Lifecycle state machine (resolve ->    *)
(* acquire -> invoke -> dispose with a cache and a retry loop).            *)
(*                                                                         *)
(* JavaScript is single-threaded: an async function runs atomically from   *)
(* one `await` to the next.  Every action below is one such atomic slice.  *)
(***************************************************************************)
EXTENDS Integers, Sequences, FiniteSets, TLC

\* ------------------------------------------------------------------ bounds
MaxRegs == 1
MaxRuns == 2
MaxAttempts == 2
MaxArrLen == 2
MaxBinds == 2

\* ------------------------------------------------------- names and values
\* A serializable value is tagged with its JavaScript kind:
\*   "s" string, "i" number, "b" boolean, "n" null, "o" plain record,
\*   "a" array.
Str(x) == [t |-> "s", v |-> x]
Num(x) == [t |-> "i", v |-> x]
Bool(x) == [t |-> "b", v |-> x]
Null == [t |-> "n", v |-> "null"]
Obj(r) == [t |-> "o", v |-> r]
Arr(s) == [t |-> "a", v |-> s]

Adder == [svc |-> Str("math"), method |-> Str("add")]
TestSvc == [svc |-> Str("Test")]

RECURSIVE matches(_, _)
RECURSIVE matchesArrayPattern(_, _)
RECURSIVE matchesKeys(_, _, _)
RECURSIVE matchesArrayFrom(_, _, _)

\* typeof value === "object" && value !== null
IsObject(value) == value.t \in {"o", "a"}

\* Array.isArray(value)
IsArray(value) == value.t = "a"

\* strict equality (===) of two serializable values where the pattern side is
\* a scalar or null: objects and arrays are never === to a scalar.
StrictEq(objValue, patternValue) ==
    /\ objValue.t = patternValue.t
    /\ objValue.v = patternValue.v

\* mutant: a key the name lacks is skipped instead of failing the match
matchesKeys_SkipsMissing(name, pattern, keys) ==
    \A key \in keys :
        key \in DOMAIN name =>
            IF IsArray(pattern[key])
            THEN IsArray(name[key]) /\ matchesArrayPattern(name[key].v, pattern[key].v)
            ELSE IF IsObject(pattern[key])
            THEN name[key].t = "o" /\ matches(name[key].v, pattern[key].v)
            ELSE StrictEq(name[key], pattern[key])

\* the loop `for (const key in pattern)` over the keys not yet visited; every
\* failing test returns false at once
matchesKeys(name, pattern, keys) ==
    IF keys = {} THEN TRUE
    ELSE LET key == CHOOSE k \in keys : TRUE
             patternValue == pattern[key]
             objValue == name[key]
             next == matchesKeys(name, pattern, keys \ {key})
         IN IF key \notin DOMAIN name THEN FALSE
            ELSE IF IsObject(patternValue)
            THEN IF IsArray(patternValue)
                 THEN IF ~IsArray(objValue)
                         \/ ~matchesArrayPattern(objValue.v, patternValue.v)
                      THEN FALSE ELSE next
                 ELSE IF ~IsObject(objValue) \/ IsArray(objValue)
                         \/ ~matches(objValue.v, patternValue.v)
                      THEN FALSE ELSE next
            ELSE IF ~StrictEq(objValue, patternValue) THEN FALSE ELSE next

\* mutant: the name must have the keys of the pattern and no others
matches_ExactKeys(name, pattern) ==
    DOMAIN name = DOMAIN pattern /\ matchesKeys(name, pattern, DOMAIN pattern)

matches(name, pattern) == matchesKeys(name, pattern, DOMAIN pattern)

\* mutant: the lengths are not compared, the pattern is matched as a prefix
matchesArrayPattern_Prefix(arr, pattern) ==
    /\ Len(arr) >= Len(pattern)
    /\ matchesArrayFrom(SubSeq(arr, 1, Len(pattern)), pattern, 1)

\* the loop `for (let i = 0; i < arr.length; i++)` from position i on
matchesArrayFrom(arr, pattern, i) ==
    IF i > Len(arr) THEN TRUE
    ELSE LET next == matchesArrayFrom(arr, pattern, i + 1)
         IN IF IsObject(pattern[i])
            THEN IF IsArray(pattern[i])
                 THEN IF ~IsArray(arr[i])
                         \/ ~matchesArrayPattern(arr[i].v, pattern[i].v)
                      THEN FALSE ELSE next
                 ELSE IF ~IsObject(arr[i]) \/ IsArray(arr[i])
                         \/ ~matches(arr[i].v, pattern[i].v)
                      THEN FALSE ELSE next
            ELSE IF ~StrictEq(arr[i], pattern[i]) THEN FALSE ELSE next

matchesArrayPattern(arr, pattern) ==
    IF Len(arr) # Len(pattern) THEN FALSE
    ELSE matchesArrayFrom(arr, pattern, 1)

\* ----------------------------------------------------------------- errors
\* A thrown value: its class, its message, whether it is an instance of
\* Error, and its property isTransient (Absent when it has none).
Absent == [t |-> "absent", v |-> "absent"]
Undef == [t |-> "u", v |-> "undefined"]

Thrown(class, message, instanceofError, marker) ==
    [class |-> class, message |-> message,
     instanceofError |-> instanceofError, isTransient |-> marker]

\* class FerrerError extends Error { isTransient: boolean = false }
FerrerError == Thrown("FerrerError", "", TRUE, Bool(FALSE))

\* its constructor sets this.isTransient = true
UnresolvedPatternError ==
    Thrown("UnresolvedPatternError", "Unresolved pattern", TRUE, Bool(TRUE))

\* override isTransient = false
EarlyDisposalError == Thrown("EarlyDisposalError", "", TRUE, Bool(FALSE))

\* what application code throws: a plain Error, or an Error of its own that
\* declares itself transient
AppFatalError == Thrown("Error", "fatal", TRUE, Absent)
AppTransientError == Thrown("AppError", "transient", TRUE, Bool(TRUE))

\* no error: the error of a run that has not thrown
NoError == Thrown("none", "", FALSE, Absent)
\* what the release function of an AtomImpl throws when it fails
ReleaseError == Thrown("Error", "release", TRUE, Absent)

\* Boolean(value): the truthiness of a JavaScript value
Boolean(value) ==
    CASE value.t = "b" -> value.v
      [] value.t = "i" -> value.v # 0
      [] value.t = "s" -> value.v # ""
      [] value.t \in {"n", "u", "absent"} -> FALSE
      [] OTHER -> TRUE

\* mutant: only the application's marker counts, UnresolvedPatternError is
\* left unmarked
isTransientError_MarkerOnly(err) == err = AppTransientError

\* mutant: transience by nominal type, the marker is not looked at
isTransientError_Nominal(err) == err.class = "UnresolvedPatternError"

\* err instanceof Error && "isTransient" in err && Boolean(err.isTransient)
isTransientError(err) ==
    IF /\ err.instanceofError
       /\ err.isTransient.t # "absent"
       /\ Boolean(err.isTransient)
    THEN TRUE
    ELSE FALSE

\* ------------------------------------------------------------------ state
VARIABLES
    registry,   \* BasicRegistry._registrations: sequence of Registration
    otherRegistry, \* the _registrations of the registry of another domain
    handles,    \* one Lifecycle (+ its LifecycleCache and Context) per Atom
    runs,       \* one entry per call of Lifecycle.run
    acqs,       \* one entry per call of Element.getAtom (the AtomImpl got)
    controller, \* the RetryController class run() instantiates
    probe       \* one call of a pure function: its arguments and its result

vars == <<registry, otherRegistry, handles, runs, acqs, controller, probe>>

\* no call of a pure function is under study
NoProbe == [op |-> "none"]

\* Implementations bound in the scenarios (test/basic.test.ts):
\*   "add"   returns {sum: a + b}
\*   "test"  finds Adder in its context, calls it with {a:1,b:2}, returns {sum}
\*   "flaky" application code that may return {sum: 0} or throw
Fns == {"add", "test", "flaky"}
Bindings == {<<Adder, "add">>, <<Adder, "flaky">>}
Args == {[a |-> 1, b |-> 2]}
NestedArg == [a |-> 1, b |-> 2]

DOMAIN_CALL == 2

\* A TraceVector is a JavaScript array: an object (id) with its events.  The
\* array of a root context is <<0, 0>>; an array made by run r in its k-th
\* attempt is <<r, k>>.
RootTrace == [id |-> <<0, 0>>, events |-> <<>>]
NoTrace == [id |-> <<-1, -1>>, events |-> <<>>]

\* mutant: the events are pushed onto the array itself, which is handed on
concat_InPlace(traceVector, events, fresh) ==
    [id |-> traceVector.id, events |-> traceVector.events \o events]

\* Array.prototype.concat: a new array, the receiver is left as it is
concat(traceVector, events, fresh) ==
    [id |-> fresh, events |-> traceVector.events \o events]

\* BasicDomain.createContext(parentContext, resolver, traceVector): the
\* trace vector of the new Context is the one given.
createContext(parentContext, traceVector) == traceVector
NoResult == [sum |-> -1]
NoDisp == [pc |-> "none", nerr |-> 0]

\* --------------------------------------------------- registry and resolver
\* An Element is identified by the index of its Registration: the registry is
\* append-only, so the index is the object identity of the FunctionElement.
FunctionElement(fn, name) == [fn |-> fn, name |-> name]

\* What bind can be given: a plain async function, or an object; either may
\* have a property getAtom, which is a function or not.  id is the identity
\* of the function or object.
AtomFunction(fn) == [type |-> "function", getAtom |-> "absent", id |-> fn]

\* isObject of @ferrer/utils: a function or a non-null object
isObject(o) == o.type = "function" \/ (o.type = "object" /\ o.id # "null")

isElement(x) == isObject(x) /\ x.getAtom # "absent" /\ x.getAtom = "function"

\* mutant: a name that is registered already is not registered again
register_Unique(reg, name, element) ==
    IF \E i \in 1..Len(reg) : reg[i].name = name
    THEN reg
    ELSE Append(reg, [name |-> name, element |-> element])

register(reg, name, element) == Append(reg, [name |-> name, element |-> element])

\* mutant: whatever is bound is wrapped in a FunctionElement
bind_AlwaysWraps(reg, name, element) ==
    register(reg, name, FunctionElement(element, name))

\* BasicDomain.bind on the domain's registry
bind(reg, name, element) ==
    IF ~isElement(element)
    THEN register(reg, name, FunctionElement(element, name))
    ELSE register(reg, name, element)

\* FunctionElement.getAtom(pattern, context): the function itself, given a
\* release that does nothing and the pattern asked for
getAtom(element, pattern) ==
    [fn |-> element.fn, dispose |-> "no-op", requestedPattern |-> pattern]

\* An Element of the application's own, bound as it is: its AtomImpls are fn
\* with a release function that throws.
ThrowingElement(fn, name) ==
    [type |-> "object", getAtom |-> "function", id |-> "throwing",
     fn |-> AtomFunction(fn), name |-> name, dispose |-> "throws"]

\* element.getAtom(pattern, context), whatever class the Element is of
Element_getAtom(element, pattern) ==
    IF DOMAIN element = {"fn", "name"}
    THEN getAtom(element, pattern)
    ELSE [fn |-> element.fn, dispose |-> element.dispose,
          requestedPattern |-> pattern]

match(reg, pattern) ==
    SelectSeq([i \in 1..Len(reg) |-> i], LAMBDA i : matches(reg[i].name, pattern))

\* the default filter of RegistryResolver: () => true
DefaultFilter(registration) == TRUE

\* a filter a caller may give: registrations under a local name only
LocalFilter(registration) == "local" \in DOMAIN registration.name

Passes(filter, registration) ==
    IF filter = "default" THEN DefaultFilter(registration) ELSE LocalFilter(registration)

\* mutant: the last match is taken
resolveFiltered_Last(reg, filter, pattern) ==
    LET results == SelectSeq(match(reg, pattern), LAMBDA i : Passes(filter, reg[i]))
    IN IF Len(results) = 0 THEN 0 ELSE results[Len(results)]

\* RegistryResolver.resolve of a resolver made with the given filter
resolveFiltered(reg, filter, pattern) ==
    LET results == SelectSeq(match(reg, pattern), LAMBDA i : Passes(filter, reg[i]))
    IN IF Len(results) = 0 THEN 0 ELSE results[1]

\* BasicDomain.internalResolver: new RegistryResolver(this.registry)
resolve(reg, pattern) == resolveFiltered(reg, "default", pattern)

ElementName(reg, element) == reg[element].element.name
ElementFn(reg, element) == reg[element].element.fn.id

\* ----------------------------------------------------- domain and context
\* `undefined`, an argument left out
Undefined == [type |-> "undefined"]

\* new RegistryResolver(registry, filter): registry names the domain whose
\* registry the resolver reads
RegistryResolver(reg, filter) ==
    [type |-> "RegistryResolver", registry |-> reg, filter |-> filter]

\* the domains: the one under study and another one beside it
LocalDomain == "D1"
OtherDomain == "D2"

\* BasicDomain.internalResolver, and the fields resolver and ingressResolver
\* that are initialised to it
internalResolver(domain) == RegistryResolver(domain, "default")
DomainResolver(domain) == internalResolver(domain)
ingressResolver(domain) == internalResolver(domain)

\* new BaseContext(domain, parentContext, resolver): the resolver given, else
\* the resolver of the parent; a context without a resolver is refused
BaseContext(domain, parentContext, resolver) ==
    LET inheritedResolver == IF parentContext.type = "BaseContext"
                             THEN parentContext.resolver
                             ELSE Undefined
        finalResolver == IF resolver # Undefined THEN resolver ELSE inheritedResolver
    IN IF finalResolver = Undefined
       THEN [type |-> "Error",
             message |-> "Context.constructor(): must provide a parent context or resolver"]
       ELSE [type |-> "BaseContext", domain |-> domain,
             parentContext |-> parentContext, resolver |-> finalResolver]

\* BasicDomain.createContext(parentContext, resolver) of provider.ts:
\* new BaseContext(this, parentContext, resolver ?? this.resolver)
BasicDomain_createContext(domain, parentContext, resolver) ==
    BaseContext(domain, parentContext,
                IF resolver # Undefined THEN resolver ELSE DomainResolver(domain))

\* mutant: one registry for the whole process, every domain binds into it
RegistryOf_Global(resolver) == registry \o otherRegistry

\* the registrations a resolver reads
RegistryOf(resolver) ==
    IF resolver.registry = LocalDomain THEN registry ELSE otherRegistry

\* --------------------------------------------------------- LifecycleCache
\* st is the heap the lifecycle code works on: [handles, runs, acqs].
\* st.uncaught is the exception on its way up the stack, NoError if none.
\* disposable[Symbol.dispose](): the release function is called, and throws
\* if it is one that does
release(st, atomImpl) ==
    [st EXCEPT !.acqs[atomImpl].released = @ + 1,
               !.uncaught = IF st.acqs[atomImpl].dispose = "throws"
                            THEN ReleaseError ELSE @]

\* mutant: no try/catch around the release
safeDispose_Propagates(st, atomImpl) == release(st, atomImpl)

\* try { disposable[Symbol.dispose]() } catch (err) { }
safeDispose(st, atomImpl) ==
    LET s1 == release(st, atomImpl)
    IN IF s1.uncaught # NoError THEN [s1 EXCEPT !.uncaught = NoError] ELSE s1

\* mutant: the AtomImpl that is replaced is dropped without being released
replaceCachedAtomImpl_NoRelease(st, h, atomImpl) ==
    [st EXCEPT !.handles[h].atomImpl = atomImpl]

replaceCachedAtomImpl(st, h, atomImpl) ==
    LET s1 == IF st.handles[h].atomImpl # 0
              THEN safeDispose(st, st.handles[h].atomImpl)
              ELSE st
    IN IF s1.uncaught # NoError
       THEN s1
       ELSE [s1 EXCEPT !.handles[h].atomImpl = atomImpl]

\* mutant: one cache per pattern, shared by the lifecycles that ask for it
replaceCachedElement_SharedByPattern(st, h, element) ==
    LET s1 == replaceCachedAtomImpl(st, h, 0)
    IN [s1 EXCEPT !.handles = <<>> \o
           [g \in DOMAIN s1.handles |->
               IF s1.handles[g].pattern = s1.handles[h].pattern
               THEN [s1.handles[g] EXCEPT !.element = element]
               ELSE s1.handles[g]]]

replaceCachedElement(st, h, element) ==
    LET s1 == replaceCachedAtomImpl(st, h, 0)
    IN IF s1.uncaught # NoError
       THEN s1
       ELSE [s1 EXCEPT !.handles[h].element = element]

clearCache(st, h) == replaceCachedElement(st, h, 0)

\* ------------------------------------------------------------- Lifecycle
\* new Lifecycle(domain, pattern, context); trace is the trace vector of the
\* context, parent the invocation the context was made for (0: a root)
NewLifecycle(domain, pattern, context, trace, parent) ==
    [domain |-> domain, pattern |-> pattern, context |-> context,
     trace |-> trace, parent |-> parent,
     disposed |-> FALSE, element |-> 0, atomImpl |-> 0, overlap |-> FALSE,
     disposeError |-> NoError]

\* mutant: dispose releases the cached AtomImpl but leaves it in the cache
dispose_KeepsAtomImpl(st, h) ==
    LET s1 == [st EXCEPT !.handles[h].disposed = TRUE]
        s2 == IF s1.handles[h].atomImpl # 0
              THEN safeDispose(s1, s1.handles[h].atomImpl)
              ELSE s1
        Mark(run) == IF run.h = h /\ run.pc # "done" /\ run.disp = NoDisp
                     THEN [run EXCEPT !.disp = [pc |-> run.pc, nerr |-> Len(run.errs)]]
                     ELSE run
    IN [s2 EXCEPT !.runs = <<>> \o [r \in DOMAIN s2.runs |-> Mark(s2.runs[r])]]

\* Lifecycle.dispose; as history, every run of the handle that is suspended
\* records where it was (and how many errors it had seen) at the first dispose.
dispose(st, h) ==
    LET s1 == [st EXCEPT !.handles[h].disposed = TRUE]
        s1c == clearCache(s1, h)
        s2 == IF s1c.uncaught # NoError
              THEN [s1c EXCEPT !.handles[h].disposeError = s1c.uncaught,
                               !.uncaught = NoError]
              ELSE s1c
        Mark(run) == IF run.h = h /\ run.pc # "done" /\ run.disp = NoDisp
                     THEN [run EXCEPT !.disp = [pc |-> run.pc, nerr |-> Len(run.errs)]]
                     ELSE run
    IN [s2 EXCEPT !.runs = <<>> \o [r \in DOMAIN s2.runs |-> Mark(s2.runs[r])]]

isDisposed(st, h) == st.handles[h].disposed

\* RetryController.shouldRetry of the reference controller, a stub
shouldRetry == TRUE

\* RetryController.combinedError: new Error("RetryController.combinedError")
combinedError == Thrown("Error", "RetryController.combinedError", TRUE, Absent)

\* What a call of retryController.shouldRetry() can answer.  The controller is
\* a policy boundary: the reference class always answers true, any other
\* policy may answer either way at each consultation.
ReferenceController == "RetryController"
PolicyController == "policy"
Answers == IF controller = ReferenceController THEN {shouldRetry} ELSE BOOLEAN

Active(st, h) == {r \in DOMAIN st.runs : st.runs[r].h = h /\ st.runs[r].pc # "done"}

\* `throw` that leaves run(): the promise returned by run() rejects.
Reject(st, r, err) ==
    [st EXCEPT !.runs[r].pc = "done", !.runs[r].status = "threw",
               !.runs[r].error = err]

\* `return result`
Return(st, r, result) ==
    [st EXCEPT !.runs[r].pc = "done", !.runs[r].status = "returned",
               !.runs[r].result = result]

\* mutant: a do-while loop, the controller is not asked before an attempt
LoopHead_NotConsulted(st, r) ==
    [st EXCEPT !.runs[r].pc = "delay"]

\* head of the retry loop: while (shouldRetry()) { await delay() ... }
\* falling out of the loop throws combinedError().  st.shouldRetry is the
\* answer the controller gives at this consultation.
LoopHead(st, r) ==
    LET s1 == [st EXCEPT !.runs[r].nConsult = @ + 1]
    IN IF st.shouldRetry
       THEN [s1 EXCEPT !.runs[r].pc = "delay"]
       ELSE Reject([s1 EXCEPT !.runs[r].stopped = TRUE], r, combinedError)

\* Lifecycle.run from its call to the first await (retryController.delay()).
StartRun(st, h, arg) ==
    LET run == [h |-> h, arg |-> arg, pc |-> "start", attempt |-> 0,
                element |-> 0, atomImpl |-> 0, resolution |-> 0,
                trace |-> NoTrace, child |-> 0,
                status |-> "pending", result |-> NoResult, error |-> NoError,
                errs |-> <<>>, resolveLog |-> <<>>, nGetAtom |-> 0,
                nInvoke |-> 0, nTransient |-> 0, disp |-> NoDisp,
                startedDisposed |-> st.handles[h].disposed,
                nConsult |-> 0, stopped |-> FALSE]
        s1 == [st EXCEPT !.runs = Append(@, run),
                         !.handles[h].overlap = @ \/ Active(st, h) # {}]
    IN LoopHead(s1, Len(s1.runs))

\* mutant: the catch block forgets to invalidate the cache
Catch_KeepsCache(st, r, err) ==
    LET s2 == [st EXCEPT !.runs[r].errs = Append(@, err)]
        s3 == IF isTransientError(err)
              THEN [s2 EXCEPT !.runs[r].nTransient = @ + 1]
              ELSE s2
    IN LoopHead(s3, r)

\* mutant: a transient error is thrown on to the caller
Catch_RethrowsTransient(st, r, err) ==
    LET h == st.runs[r].h
        s1 == clearCache(st, h)
        s2 == [s1 EXCEPT !.runs[r].errs = Append(@, err)]
    IN IF isTransientError(err)
       THEN Reject([s2 EXCEPT !.runs[r].nTransient = @ + 1], r, err)
       ELSE LoopHead(s2, r)

\* the catch block of run(): clear the cache, notify the controller of a
\* transient error and continue; nothing is rethrown for a fatal error, so
\* control falls to the end of the loop body and the loop goes round again.
Catch(st, r, err) ==
    LET h == st.runs[r].h
        s1 == clearCache(st, h)
        s2 == [s1 EXCEPT !.runs[r].errs = Append(@, err)]
        s3 == IF isTransientError(err)
              THEN [s2 EXCEPT !.runs[r].nTransient = @ + 1]
              ELSE s2
    IN IF s1.uncaught # NoError
       THEN Reject([s1 EXCEPT !.uncaught = NoError], r, s1.uncaught)
       ELSE LoopHead(s3, r)

\* the rest of the try block runs if nothing was thrown (next), else control
\* is in the catch block with what was thrown
Try(s1, r, next) ==
    IF s1.uncaught # NoError
    THEN Catch([s1 EXCEPT !.uncaught = NoError], r, s1.uncaught)
    ELSE next

\* mutant: the execution context gets the owning context's trace as it is
ExecutionTrace_NoEvent(st, r) ==
    createContext(st.handles[st.runs[r].h].trace, st.handles[st.runs[r].h].trace)

\* the trace of the execution context: this.context.trace.concat([[DOMAIN_CALL,
\* element.name]]), given to createContext
ExecutionTrace(st, r) ==
    LET h == st.runs[r].h
        element == st.runs[r].element
    IN createContext(st.handles[h].trace,
           concat(st.handles[h].trace,
                  <<[type |-> DOMAIN_CALL,
                     resolvedName |->
                         ElementName(RegistryOf(st.handles[h].context.resolver),
                                     element)]>>,
                  <<r, st.runs[r].attempt>>))

\* BaseContext.find(pattern): a Lifecycle on this context and its domain
find(context, pattern, trace, parent) ==
    NewLifecycle(context.domain, pattern, context, trace, parent)

\* const result = await atomImpl(executionContext, arg): the synchronous part
\* of the call.  The "test" implementation runs up to its own first await:
\* `using add = context.find(Adder)` creates a Lifecycle on the execution
\* context, and `add({a:1,b:2})` starts its run().
Execute(st, r) ==
    LET h == st.runs[r].h
        element == st.runs[r].element
        atomImpl == st.runs[r].atomImpl
        executionContext == BasicDomain_createContext(st.handles[h].domain,
                                st.handles[h].context, Undefined)
        executionTrace == ExecutionTrace(st, r)
        s1 == [st EXCEPT !.runs[r].trace = executionTrace,
                         !.runs[r].pc = "invoke",
                         !.runs[r].nInvoke = @ + 1,
                         !.acqs[atomImpl].invoked = @ + 1,
                         !.acqs[atomImpl].invokedAfterDispose =
                             @ \/ st.handles[h].disposed]
    IN IF ElementFn(RegistryOf(st.handles[h].context.resolver),
                    st.acqs[atomImpl].element) = "test"
       THEN LET s2 == [s1 EXCEPT !.handles =
                          Append(@, find(executionContext, Adder,
                                         executionTrace, r))]
                child == Len(s2.handles)
                s3 == [s2 EXCEPT !.runs[r].child = child]
            IN StartRun(s3, child, NestedArg)
       ELSE s1

\* "Obtain implementation": use the cached AtomImpl or call Element.getAtom.
\* FunctionElement.getAtom does its work synchronously and returns a resolved
\* promise; the run is suspended on it.
Obtain(st, r) ==
    LET h == st.runs[r].h
        cached == st.handles[h].atomImpl
    IN IF cached = 0
       THEN LET acq == [h |-> h, r |-> r, element |-> st.runs[r].element,
                        requestedPattern |-> st.handles[h].pattern,
                        dispose |->
                            Element_getAtom(
                                RegistryOf(st.handles[h].context.resolver)
                                    [st.runs[r].element].element,
                                st.handles[h].pattern).dispose,
                        released |-> 0, invoked |-> 0,
                        afterDispose |-> st.handles[h].disposed,
                        invokedAfterDispose |-> FALSE]
                s1 == [st EXCEPT !.acqs = Append(@, acq)]
            IN [s1 EXCEPT !.runs[r].atomImpl = Len(s1.acqs),
                          !.runs[r].nGetAtom = @ + 1,
                          !.runs[r].pc = "getAtom"]
       ELSE Execute([st EXCEPT !.runs[r].atomImpl = cached], r)

\* this.context.resolver.resolve(this.pattern)
contextResolve(st, h) ==
    LET resolver == st.handles[h].context.resolver
    IN resolveFiltered(RegistryOf(resolver), resolver.filter, st.handles[h].pattern)

\* mutant: the cached Element is not consulted
Resolution_IgnoresCache(st, r) ==
    LET h == st.runs[r].h
        resolution == contextResolve(st, h)
    IN [st EXCEPT !.runs[r].resolution = resolution,
                  !.runs[r].resolveLog = Append(@, resolution # 0),
                  !.runs[r].pc = "resolve"]

\* "Resolution of element": use the cached Element or call resolver.resolve.
\* RegistryResolver.resolve computes its answer synchronously, at the call.
Resolution(st, r) ==
    LET h == st.runs[r].h
        cached == st.handles[h].element
    IN IF cached = 0
       THEN LET resolution == contextResolve(st, h)
            IN [st EXCEPT !.runs[r].resolution = resolution,
                          !.runs[r].resolveLog = Append(@, resolution # 0),
                          !.runs[r].pc = "resolve"]
       ELSE Obtain([st EXCEPT !.runs[r].element = cached], r)

\* mutant: no disposal check at the head of an attempt
AfterDelay_NoDisposalCheck(st, r) ==
    Resolution([st EXCEPT !.runs[r].attempt = @ + 1], r)

\* run() resumed after `await retryController.delay()`
AfterDelay(st, r) ==
    LET h == st.runs[r].h
    IN IF isDisposed(st, h)
       THEN Reject(st, r, EarlyDisposalError)
       ELSE Resolution([st EXCEPT !.runs[r].attempt = @ + 1], r)

\* mutant: no disposal re-check after resolve
AfterResolve_NoRecheck(st, r) ==
    LET h == st.runs[r].h
        resolution == st.runs[r].resolution
    IN IF resolution = 0
       THEN Catch(st, r, UnresolvedPatternError)
       ELSE LET s1 == replaceCachedElement(
                          [st EXCEPT !.runs[r].element = resolution], h, resolution)
            IN Try(s1, r, Obtain(s1, r))

\* run() resumed after `await this.context.resolver.resolve(this.pattern)`
AfterResolve(st, r) ==
    LET h == st.runs[r].h
        resolution == st.runs[r].resolution
    IN IF resolution = 0
       THEN Catch(st, r, UnresolvedPatternError)
       ELSE IF isDisposed(st, h)
       THEN Catch(st, r, EarlyDisposalError)
       ELSE LET s1 == replaceCachedElement(
                          [st EXCEPT !.runs[r].element = resolution], h, resolution)
            IN Try(s1, r, Obtain(s1, r))

\* mutant: no disposal re-check after getAtom
AfterGetAtom_NoRecheck(st, r) ==
    Execute(replaceCachedAtomImpl(st, st.runs[r].h, st.runs[r].atomImpl), r)

\* mutant: the AtomImpl of a lost race is dropped, not released
AfterGetAtom_DropsOnLostRace(st, r) ==
    LET h == st.runs[r].h
        atomImpl == st.runs[r].atomImpl
    IN IF isDisposed(st, h)
       THEN Catch(st, r, EarlyDisposalError)
       ELSE Execute(replaceCachedAtomImpl(st, h, atomImpl), r)

\* run() resumed after `await element.getAtom(this.pattern, this.context)`
AfterGetAtom(st, r) ==
    LET h == st.runs[r].h
        atomImpl == st.runs[r].atomImpl
        s1 == IF isDisposed(st, h)
              THEN safeDispose(st, atomImpl)
              ELSE replaceCachedAtomImpl(st, h, atomImpl)
    IN Try(s1, r, IF isDisposed(st, h)
                  THEN Catch(s1, r, EarlyDisposalError)
                  ELSE Execute(s1, r))

\* mutant: `return result` lost, the run fulfils with undefined
AfterInvokeOk_DropsResult(st, r, result) ==
    LET h == st.runs[r].h
        s1 == IF isDisposed(st, h) THEN replaceCachedAtomImpl(st, h, 0) ELSE st
    IN Return(s1, r, NoResult)

\* mutant: a disposal check after the invocation retracts the result
AfterInvokeOk_ThrowsIfDisposed(st, r, result) ==
    LET h == st.runs[r].h
    IN IF isDisposed(st, h)
       THEN Reject(replaceCachedAtomImpl(st, h, 0), r, EarlyDisposalError)
       ELSE Return(st, r, result)

\* run() resumed after `await atomImpl(executionContext, arg)` fulfilled
AfterInvokeOk(st, r, result) ==
    LET h == st.runs[r].h
        s1 == IF isDisposed(st, h) THEN replaceCachedAtomImpl(st, h, 0) ELSE st
    IN Try(s1, r, Return(s1, r, result))

\* ... or rejected
AfterInvokeErr(st, r, err) == Catch(st, r, err)

\* ---------------------------------------------------------------- actions
\* the heap, with the answer the controller gives if it is consulted in
\* the step
Heap(ans) == [handles |-> handles, runs |-> runs, acqs |-> acqs,
              shouldRetry |-> ans, uncaught |-> NoError]

Commit(st) ==
    /\ handles' = st.handles
    /\ runs' = st.runs
    /\ acqs' = st.acqs
    /\ UNCHANGED <<registry, otherRegistry, controller, probe>>

Roots == {h \in DOMAIN handles : handles[h].parent = 0}
RootRuns == {r \in DOMAIN runs : handles[runs[r].h].parent = 0}

\* the number of attempts (passes through the retry loop body) begun so far
RECURSIVE SumAttempts(_, _)
SumAttempts(rs, n) == IF n = 0 THEN 0 ELSE rs[n].attempt + SumAttempts(rs, n - 1)
Attempts(rs) == SumAttempts(rs, Len(rs))

\* mutant: the ingress keeps one root context and hands it to every handle
externalize_SharedRoot(domain, pattern, fresh) ==
    NewLifecycle(domain, pattern,
                 BasicDomain_createContext(domain, Undefined, ingressResolver(domain)),
                 RootTrace, 0)

\* Ingress.externalize(pattern): a root context (no parent, the domain's
\* ingress resolver, an empty trace in an array of its own) and a Lifecycle
\* on it.
externalize(domain, pattern, fresh) ==
    NewLifecycle(domain, pattern,
                 BasicDomain_createContext(domain, Undefined, ingressResolver(domain)),
                 [id |-> fresh, events |-> <<>>], 0)

\* A domain with nothing bound yet, and the handle under study: the caller
\* has taken a handle on the Adder pattern, ferrer.external(Adder).
Init ==
    /\ registry = <<>>
    /\ otherRegistry = <<>>
    /\ handles = <<externalize(LocalDomain, Adder, <<0, 0>>)>>
    /\ runs = <<>>
    /\ acqs = <<>>
    /\ controller = ReferenceController
    /\ probe = NoProbe

\* BasicDomain.bind(name, fn): fn is not an Element, so it is wrapped.
Bind(name, fn) ==
    /\ Len(registry) < MaxRegs
    /\ registry' = bind(registry, name, AtomFunction(fn))
    /\ UNCHANGED <<otherRegistry, handles, runs, acqs, controller, probe>>

\* the caller outside the domain invokes the handle: lifecycle.run(arg)
Call(h, arg) ==
    /\ h \in Roots
    /\ Cardinality(RootRuns) < MaxRuns
    /\ \E ans \in Answers : Commit(StartRun(Heap(ans), h, arg))

\* the caller releases the handle: handle[Symbol.dispose]()
Dispose(h) ==
    /\ h \in Roots
    /\ Commit(dispose(Heap(shouldRetry), h))

DelayDone(r) ==
    /\ runs[r].pc = "delay"
    /\ handles[runs[r].h].disposed \/ Attempts(runs) < MaxAttempts
    /\ \E ans \in Answers : Commit(AfterDelay(Heap(ans), r))

ResolveDone(r) ==
    /\ runs[r].pc = "resolve"
    /\ \E ans \in Answers : Commit(AfterResolve(Heap(ans), r))

GetAtomDone(r) ==
    /\ runs[r].pc = "getAtom"
    /\ \E ans \in Answers : Commit(AfterGetAtom(Heap(ans), r))

\* the implementation a suspended invocation is executing
Invoking(r, fn) ==
    /\ runs[r].pc = "invoke"
    /\ ElementFn(RegistryOf(handles[runs[r].h].context.resolver),
                 acqs[runs[r].atomImpl].element) = fn

\* async (context, {a, b}) => ({sum: a + b})
AddReturns(r) ==
    /\ Invoking(r, "add")
    /\ Commit(AfterInvokeOk(Heap(shouldRetry), r,
                            [sum |-> runs[r].arg.a + runs[r].arg.b]))

\* application code that returns ...
FlakyReturns(r) ==
    /\ Invoking(r, "flaky")
    /\ Commit(AfterInvokeOk(Heap(shouldRetry), r, [sum |-> 0]))

\* ... or throws, an error with or without the isTransient marker
FlakyThrows(r, err) ==
    /\ Invoking(r, "flaky")
    /\ \E ans \in Answers : Commit(AfterInvokeErr(Heap(ans), r, err))

\* the run() of the handle the "test" implementation holds
ChildRun(r) == CHOOSE c \in DOMAIN runs : runs[c].h = runs[r].child

\* `const {sum} = await add({a:1,b:2})` fulfils; scope exit releases `add`,
\* then `return {sum}`.  (The await never rejects: run() on a handle that is
\* not disposed has no path that throws, see Catch.)
TestReturns(r) ==
    /\ Invoking(r, "test")
    /\ runs[ChildRun(r)].status = "returned"
    /\ Commit(AfterInvokeOk(dispose(Heap(shouldRetry), runs[r].child), r,
                            [sum |-> runs[ChildRun(r)].result.sum]))

Steps ==
    \/ \E h \in DOMAIN handles : \E arg \in Args : Call(h, arg)
    \/ \E h \in DOMAIN handles : Dispose(h)
    \/ \E r \in DOMAIN runs : DelayDone(r)
    \/ \E r \in DOMAIN runs : ResolveDone(r)
    \/ \E r \in DOMAIN runs : GetAtomDone(r)
    \/ \E r \in DOMAIN runs : AddReturns(r)
    \/ \E r \in DOMAIN runs : FlakyReturns(r)
    \/ \E r \in DOMAIN runs : \E err \in {AppFatalError, AppTransientError} :
           FlakyThrows(r, err)

\* One handle on the Adder pattern, bindings arriving at any time.
Next ==
    \/ \E b \in Bindings : Bind(b[1], b[2])
    \/ Steps

Spec == Init /\ [][Next]_vars

\* The scenario of test/basic.test.ts: TestSvc and Adder are bound first,
\* then the caller takes a handle on TestSvc, ferrer.external(TestSvc);
\* TestSvc calls Adder.
InitNested ==
    /\ registry \in {bind(bind(<<>>, TestSvc, AtomFunction("test")),
                          Adder, AtomFunction(fn)) : fn \in {"add", "flaky"}}
    /\ otherRegistry = <<>>
    /\ handles = <<externalize(LocalDomain, TestSvc, <<0, 0>>)>>
    /\ runs = <<>>
    /\ acqs = <<>>
    /\ controller = ReferenceController
    /\ probe = NoProbe

NextNested ==
    \/ Steps
    \/ \E r \in DOMAIN runs : TestReturns(r)

SpecNested == InitNested /\ [][NextNested]_vars

\* The same handle and bindings, run() instantiating a controller with a
\* policy of its own (RetryController is the policy boundary of the loop).
InitRetry ==
    /\ registry = <<>>
    /\ otherRegistry = <<>>
    /\ handles = <<externalize(LocalDomain, Adder, <<0, 0>>)>>
    /\ runs = <<>>
    /\ acqs = <<>>
    /\ controller = PolicyController
    /\ probe = NoProbe

\* the application code bound is the one that may fail
NextRetry ==
    \/ Bind(Adder, "flaky")
    \/ \E h \in DOMAIN handles : \E arg \in Args : Call(h, arg)
    \/ \E h \in DOMAIN handles : Dispose(h)
    \/ \E r \in DOMAIN runs : DelayDone(r)
    \/ \E r \in DOMAIN runs : ResolveDone(r)
    \/ \E r \in DOMAIN runs : GetAtomDone(r)
    \/ \E r \in DOMAIN runs : FlakyReturns(r)
    \/ \E r \in DOMAIN runs : \E err \in {AppFatalError, AppTransientError} :
           FlakyThrows(r, err)

SpecRetry == InitRetry /\ [][NextRetry]_vars

\* ------------------------------------------------------ pattern matching
\* The universe of names: records over the keys k and m; under k any value
\* (scalar, null, record, array), under m a string.
EmptyRecord == [key \in {} |-> Null]
Scalars == {Str("x"), Num(1), Null}
InnerValues == {Str("x"), Num(1), Obj([b |-> Null])}
InnerRecords ==
    {EmptyRecord} \cup {[a |-> v] : v \in InnerValues} \cup {[b |-> v] : v \in InnerValues}
        \cup {[a |-> v, b |-> w] : v, w \in {Str("x"), Num(1)}}
Elements == {Str("x"), Null, Obj([a |-> Str("x")]), Obj([a |-> Str("x"), b |-> Num(1)]),
             Arr(<<>>), Arr(<<Num(1)>>)}
Arrays == UNION {[1..n -> Elements] : n \in 0..MaxArrLen}
Values == Scalars \cup {Obj(r) : r \in InnerRecords} \cup {Arr(a) : a \in Arrays}
Names ==
    {EmptyRecord} \cup {[m |-> Str("x")]} \cup {[k |-> v] : v \in Values}
        \cup {[k |-> v, m |-> Str("x")] : v \in Values}

\* one call matches(name, pattern), any name and pattern of the universe
InitMatch ==
    /\ registry = <<>>
    /\ otherRegistry = <<>>
    /\ handles = <<>>
    /\ runs = <<>>
    /\ acqs = <<>>
    /\ controller = ReferenceController
    /\ probe \in {[op |-> "matches", name |-> n, pattern |-> p,
                   done |-> FALSE, result |-> FALSE] : n, p \in Names}

Matches ==
    /\ probe.op = "matches"
    /\ ~probe.done
    /\ probe' = [probe EXCEPT !.done = TRUE,
                              !.result = matches(probe.name, probe.pattern)]
    /\ UNCHANGED <<registry, otherRegistry, handles, runs, acqs, controller>>

NextMatch == Matches

SpecMatch == InitMatch /\ [][NextMatch]_vars

\* ------------------------------------------------- registry and bindings
\* A domain whose registry is filled by bind, and calls of Registry.match,
\* of RegistryResolver.resolve and of FunctionElement.getAtom on it.
Subtractor == [svc |-> Str("math"), method |-> Str("sub")]
LocalAdder == [svc |-> Str("math"), method |-> Str("add"), local |-> Bool(TRUE)]
RegNames == {Adder, Subtractor, LocalAdder}
Patterns == {EmptyRecord, [svc |-> Str("math")], Adder, TestSvc}
Filters == {"default", "local"}

\* a plain function, null, an Element object, a function that has a getAtom
\* function, an object whose getAtom is not a function
Bindables ==
    {AtomFunction("add"),
     [type |-> "object", getAtom |-> "absent", id |-> "null"],
     [type |-> "object", getAtom |-> "function", id |-> "element"],
     [type |-> "function", getAtom |-> "function", id |-> "callable element"],
     [type |-> "object", getAtom |-> "string", id |-> "object"]}

InitRegistry ==
    /\ registry = <<>>
    /\ otherRegistry = <<>>
    /\ handles = <<>>
    /\ runs = <<>>
    /\ acqs = <<>>
    /\ controller = ReferenceController
    /\ probe = [op |-> "none", calls |-> <<>>, pattern |-> EmptyRecord,
                filter |-> "default", at |-> 0, index |-> 0, prev |-> -1,
                result |-> 0]

\* domain.bind(name, x); the call is logged
BindCall(name, x) ==
    /\ Len(registry) < MaxBinds
    /\ registry' = bind(registry, name, x)
    /\ probe' = [probe EXCEPT !.calls = Append(@, [name |-> name, element |-> x])]
    /\ UNCHANGED <<otherRegistry, handles, runs, acqs, controller>>

\* registry.match(pattern)
MatchCall(pattern) ==
    /\ probe' = [probe EXCEPT !.op = "match", !.pattern = pattern,
                              !.filter = "default", !.at = Len(registry),
                              !.index = 0, !.prev = -1,
                              !.result = match(registry, pattern)]
    /\ UNCHANGED <<registry, otherRegistry, handles, runs, acqs, controller>>

\* mutant: resolve takes the registration it answers with out of the
\* registry (results.shift() on the registrations themselves)
ResolveCall_TakesRegistration(filter, pattern) ==
    LET i == resolveFiltered(registry, filter, pattern)
    IN /\ probe' = [probe EXCEPT !.op = "resolve", !.pattern = pattern,
                                 !.filter = filter, !.at = Len(registry),
                                 !.index = 0, !.prev = -1, !.result = i]
       /\ registry' = IF i = 0 THEN registry
                      ELSE SubSeq(registry, 1, i - 1) \o SubSeq(registry, i + 1, Len(registry))
       /\ UNCHANGED <<otherRegistry, handles, runs, acqs, controller>>

\* new RegistryResolver(registry, filter).resolve(pattern); prev is the
\* answer of the call before when that was the same call on the same registry
ResolveCall(filter, pattern) ==
    /\ probe' = [probe EXCEPT !.op = "resolve", !.pattern = pattern,
                              !.filter = filter, !.at = Len(registry),
                              !.index = 0,
                              !.prev = IF /\ probe.op = "resolve"
                                          /\ probe.pattern = pattern
                                          /\ probe.filter = filter
                                          /\ probe.at = Len(registry)
                                       THEN probe.result ELSE -1,
                              !.result = resolveFiltered(registry, filter, pattern)]
    /\ UNCHANGED <<registry, otherRegistry, handles, runs, acqs, controller>>

\* registration.element.getAtom(pattern, context) of a FunctionElement
GetAtomCall(i, pattern) ==
    /\ i \in 1..Len(registry)
    /\ "fn" \in DOMAIN registry[i].element
    /\ probe' = [probe EXCEPT !.op = "getAtom", !.pattern = pattern,
                              !.filter = "default", !.at = Len(registry),
                              !.index = i, !.prev = -1,
                              !.result = getAtom(registry[i].element, pattern)]
    /\ UNCHANGED <<registry, otherRegistry, handles, runs, acqs, controller>>

NextRegistry ==
    \/ \E name \in RegNames : \E x \in Bindables : BindCall(name, x)
    \/ \E pattern \in Patterns : MatchCall(pattern)
    \/ \E filter \in Filters : \E pattern \in Patterns : ResolveCall(filter, pattern)
    \/ \E i \in 1..MaxBinds : \E pattern \in Patterns : GetAtomCall(i, pattern)

SpecRegistry == InitRegistry /\ [][NextRegistry]_vars

\* ------------------------------------------------------ creating contexts
MaxContexts == 3

\* the resolvers a caller of createContext may give: the domain's own, one
\* with a filter of the caller's, one over another domain's registry
Resolvers ==
    {internalResolver(LocalDomain), RegistryResolver(LocalDomain, "local"),
     internalResolver(OtherDomain)}

\* calls of domain.createContext, each on no parent or on a Context made by
\* an earlier call; the calls and what they returned are logged
InitContext ==
    /\ registry = <<>>
    /\ otherRegistry = <<>>
    /\ handles = <<>>
    /\ runs = <<>>
    /\ acqs = <<>>
    /\ controller = ReferenceController
    /\ probe = [op |-> "createContext", calls |-> <<>>]

CreateContextCall(p, override) ==
    /\ probe.op = "createContext"
    /\ Len(probe.calls) < MaxContexts
    /\ p \in 0..Len(probe.calls)
    /\ p # 0 => probe.calls[p].result.type = "BaseContext"
    /\ LET parentContext == IF p = 0 THEN Undefined ELSE probe.calls[p].result
       IN probe' = [probe EXCEPT !.calls = Append(@,
                       [parent |-> p, parentContext |-> parentContext,
                        resolver |-> override,
                        result |-> BasicDomain_createContext(LocalDomain,
                                       parentContext, override)])]
    /\ UNCHANGED <<registry, otherRegistry, handles, runs, acqs, controller>>

NextContext ==
    \E p \in 0..MaxContexts : \E override \in Resolvers \cup {Undefined} :
        CreateContextCall(p, override)

SpecContext == InitContext /\ [][NextContext]_vars

\* -------------------------------------------------------- several handles
\* The patterns a caller asks the ingress for; both match the name Adder.
HandlePatterns == {Adder, [svc |-> Str("math")]}

\* Adder is bound, and the caller has taken two handles, ferrer.external
\* twice: on the same pattern, or on two patterns that resolve to the same
\* binding.
InitHandles ==
    /\ registry \in {bind(<<>>, Adder, AtomFunction(fn)) : fn \in {"add", "flaky"}}
    /\ otherRegistry = <<>>
    /\ handles \in {<<externalize(LocalDomain, Adder, <<0, 0>>),
                      externalize(LocalDomain, pattern, <<0, 1>>)>> :
                        pattern \in HandlePatterns}
    /\ runs = <<>>
    /\ acqs = <<>>
    /\ controller = ReferenceController
    /\ probe = NoProbe

NextHandles ==
    \/ \E h \in DOMAIN handles : \E arg \in Args : Call(h, arg)
    \/ \E h \in DOMAIN handles : Dispose(h)
    \/ \E r \in DOMAIN runs : DelayDone(r)
    \/ \E r \in DOMAIN runs : ResolveDone(r)
    \/ \E r \in DOMAIN runs : GetAtomDone(r)
    \/ \E r \in DOMAIN runs : AddReturns(r)
    \/ \E r \in DOMAIN runs : FlakyThrows(r, AppFatalError)

SpecHandles == InitHandles /\ [][NextHandles]_vars

\* ---------------------------------------------------- classifying errors
\* what the property isTransient of a thrown value can hold
Markers ==
    {Absent, Undef, Null, Bool(TRUE), Bool(FALSE), Num(0), Num(1), Str(""),
     Str("yes"), Obj(EmptyRecord)}

\* The values a catch block can get: the errors of the runtime as they are
\* constructed; instances of Error and of classes derived from it (from
\* FerrerError too) with any marker; objects that are not Errors, with any
\* marker; primitives.
ThrownValues ==
    {UnresolvedPatternError, EarlyDisposalError, FerrerError}
        \cup {Thrown(class, "app", TRUE, marker) :
                class \in {"Error", "TypeError", "AppError", "AppFerrerError"},
                marker \in Markers}
        \cup {Thrown("Object", "app", FALSE, marker) : marker \in Markers}
        \cup {Thrown(class, "", FALSE, Absent) :
                class \in {"string", "number", "undefined", "null"}}

\* one call isTransientError(err), as the catch block of run() makes it
InitErrors ==
    /\ registry = <<>>
    /\ otherRegistry = <<>>
    /\ handles = <<>>
    /\ runs = <<>>
    /\ acqs = <<>>
    /\ controller = ReferenceController
    /\ probe \in {[op |-> "isTransientError", err |-> err, done |-> FALSE,
                   result |-> FALSE] : err \in ThrownValues}

Classify ==
    /\ probe.op = "isTransientError"
    /\ ~probe.done
    /\ probe' = [probe EXCEPT !.done = TRUE, !.result = isTransientError(probe.err)]
    /\ UNCHANGED <<registry, otherRegistry, handles, runs, acqs, controller>>

NextErrors == Classify

SpecErrors == InitErrors /\ [][NextErrors]_vars

\* ------------------------------------------------------------ two domains
\* Two domains: TestSvc is bound in the one, Adder in the other only.  A
\* caller holds a handle on TestSvc from the ingress of the first and a
\* handle on Adder from the ingress of the second; TestSvc looks for Adder
\* on the Context it is invoked with.
InitDomains ==
    /\ registry = bind(<<>>, TestSvc, AtomFunction("test"))
    /\ otherRegistry = bind(<<>>, Adder, AtomFunction("add"))
    /\ handles = <<externalize(LocalDomain, TestSvc, <<0, 0>>),
                   externalize(OtherDomain, Adder, <<0, 1>>)>>
    /\ runs = <<>>
    /\ acqs = <<>>
    /\ controller = ReferenceController
    /\ probe = NoProbe

NextDomains ==
    \/ \E h \in DOMAIN handles : \E arg \in Args : Call(h, arg)
    \/ \E h \in DOMAIN handles : Dispose(h)
    \/ \E r \in DOMAIN runs : DelayDone(r)
    \/ \E r \in DOMAIN runs : ResolveDone(r)
    \/ \E r \in DOMAIN runs : GetAtomDone(r)
    \/ \E r \in DOMAIN runs : AddReturns(r)

SpecDomains == InitDomains /\ [][NextDomains]_vars

\* -------------------------------------------------------------- ingress
\* Adder is bound in the domain; callers take handles from the ingress of
\* this domain or of the other one at any time, while the first handle taken
\* is in use.  The calls of externalize are logged.
InitIngress ==
    /\ registry = bind(<<>>, Adder, AtomFunction("add"))
    /\ otherRegistry = <<>>
    /\ handles = <<>>
    /\ runs = <<>>
    /\ acqs = <<>>
    /\ controller = ReferenceController
    /\ probe = [op |-> "externalize", calls |-> <<>>]

\* domain.localIngress.externalize(pattern)
Externalize(domain, pattern) ==
    /\ probe.op = "externalize"
    /\ Len(handles) < MaxRuns
    /\ handles' = Append(handles,
                         externalize(domain, pattern, <<0, Len(handles)>>))
    /\ probe' = [probe EXCEPT !.calls = Append(@, [domain |-> domain,
                                                   pattern |-> pattern])]
    /\ UNCHANGED <<registry, otherRegistry, runs, acqs, controller>>

NextIngress ==
    \/ \E domain \in {LocalDomain, OtherDomain} : \E pattern \in HandlePatterns :
           Externalize(domain, pattern)
    \/ \E arg \in Args : Call(1, arg)
    \/ \E r \in DOMAIN runs : DelayDone(r)
    \/ \E r \in DOMAIN runs : ResolveDone(r)
    \/ \E r \in DOMAIN runs : GetAtomDone(r)
    \/ \E r \in DOMAIN runs : AddReturns(r)

SpecIngress == InitIngress /\ [][NextIngress]_vars

\* --------------------------------------------- a release function that throws
\* Adder is bound to an Element of the application's own whose AtomImpls
\* throw when released; one handle on Adder, called and released at any time.
InitRelease ==
    /\ registry \in {bind(<<>>, Adder, ThrowingElement(fn, Adder)) :
                        fn \in {"add", "flaky"}}
    /\ otherRegistry = <<>>
    /\ handles = <<externalize(LocalDomain, Adder, <<0, 0>>)>>
    /\ runs = <<>>
    /\ acqs = <<>>
    /\ controller = ReferenceController
    /\ probe = NoProbe

NextRelease == Steps

SpecRelease == InitRelease /\ [][NextRelease]_vars

\* ------------------------------------------------------------- progress
\* One handle on Adder, bound to the implementation that may fail, and every
\* awaited promise settling in the end: retryController.delay() and
\* FunctionElement.getAtom return resolved promises, RegistryResolver.resolve
\* likewise, and the implementation is taken to fulfil or reject.  A delay
\* that the bound on attempts holds back is not owed a step.
Settle(r) ==
    \/ DelayDone(r)
    \/ ResolveDone(r)
    \/ GetAtomDone(r)
    \/ FlakyReturns(r)
    \/ FlakyThrows(r, AppFatalError)

\* the handle of Init; Adder is bound before the first call, or never
InitLive ==
    /\ registry \in {<<>>, bind(<<>>, Adder, AtomFunction("flaky"))}
    /\ otherRegistry = <<>>
    /\ handles = <<externalize(LocalDomain, Adder, <<0, 0>>)>>
    /\ runs = <<>>
    /\ acqs = <<>>
    /\ controller = ReferenceController
    /\ probe = NoProbe

NextLive ==
    \/ \E h \in DOMAIN handles : \E arg \in Args : Call(h, arg)
    \/ \E h \in DOMAIN handles : Dispose(h)
    \/ \E r \in DOMAIN runs : Settle(r)

SpecLive ==
    /\ InitLive
    /\ [][NextLive]_vars
    /\ \A r \in 1..MaxRuns : WF_vars(r \in DOMAIN runs /\ Settle(r))

\* ------------------------------------------------- who writes the registry
\* Every operation of the library next to bind.  Three callers: one holds a
\* handle on TestSvc (whose implementation finds Adder on its Context) and
\* calls and releases it; one asks the registry and its resolvers directly;
\* one takes handles from the ingresses.  Adder is bound at any time.
InitFrame ==
    /\ otherRegistry = <<>>
    /\ runs = <<>>
    /\ acqs = <<>>
    /\ controller = ReferenceController
    /\ \/ /\ registry = bind(<<>>, TestSvc, AtomFunction("test"))
          /\ handles = <<externalize(LocalDomain, TestSvc, <<0, 0>>)>>
          /\ probe = NoProbe
       \/ /\ registry = <<>>
          /\ handles = <<>>
          /\ probe = [op |-> "none", calls |-> <<>>, pattern |-> EmptyRecord,
                      filter |-> "default", at |-> 0, index |-> 0, prev |-> -1,
                      result |-> 0]
       \/ /\ registry = <<>>
          /\ handles = <<>>
          /\ probe = [op |-> "externalize", calls |-> <<>>]

\* domain.bind(Adder, fn) while handles are in use
BindAdder(fn) ==
    /\ Len(registry) < MaxBinds
    /\ registry' = bind(registry, Adder, AtomFunction(fn))
    /\ UNCHANGED <<otherRegistry, handles, runs, acqs, controller, probe>>

NextFrame ==
    \/ \E fn \in {"add", "flaky"} : BindAdder(fn)
    \/ probe = NoProbe /\ Steps
    \/ probe = NoProbe /\ \E r \in DOMAIN runs : TestReturns(r)
    \/ probe.op \in {"none", "match", "resolve"} /\ probe # NoProbe /\
           \E pattern \in Patterns : MatchCall(pattern)
    \/ probe.op \in {"none", "match", "resolve"} /\ probe # NoProbe /\
           \E filter \in Filters : \E pattern \in Patterns : ResolveCall(filter, pattern)
    \/ \E domain \in {LocalDomain, OtherDomain} : \E pattern \in HandlePatterns :
           Externalize(domain, pattern)

SpecFrame == InitFrame /\ [][NextFrame]_vars

\* ----------------------------------------------------- the AtomImpl object
\* The object an acquisition got from FunctionElement.getAtom:
\* Object.assign(this.fn, ...) returns this.fn, the bound function itself.
AtomImplObject(a) ==
    getAtom(RegistryOf(handles[acqs[a].h].context.resolver)[acqs[a].element].element,
            acqs[a].requestedPattern).fn.id

\* The getAtom call whose Object.assign wrote that object last; acqs is in
\* the order of the getAtom calls.
LastAssign(a) ==
    CHOOSE b \in DOMAIN acqs :
        /\ AtomImplObject(b) = AtomImplObject(a)
        /\ \A c \in DOMAIN acqs : AtomImplObject(c) = AtomImplObject(a) => c <= b

\* atomImpl.requestedPattern as it reads now
AtomImpl_requestedPattern(a) ==
    getAtom(RegistryOf(handles[acqs[a].h].context.resolver)[acqs[a].element].element,
            acqs[LastAssign(a)].requestedPattern).requestedPattern

\* ----------------------------------------------------------- verification
\* What the function bound under the first matching name computes.
FirstMatch(pattern) ==
    IF \E i \in 1..Len(registry) : matches(registry[i].name, pattern)
    THEN CHOOSE i \in 1..Len(registry) :
            /\ matches(registry[i].name, pattern)
            /\ \A j \in 1..(i - 1) : ~matches(registry[j].name, pattern)
    ELSE 0

RECURSIVE Computes(_, _)
Computes(fn, arg) ==
    CASE fn = "add" -> [sum |-> arg.a + arg.b]
      [] fn = "flaky" -> [sum |-> 0]
      [] fn = "test" -> Computes(ElementFn(registry, FirstMatch(Adder)), NestedArg)

Undisturbed(r) ==
    /\ runs[r].errs = <<>>
    /\ runs[r].disp = NoDisp
    /\ ~runs[r].startedDisposed

\* C1: a handle for a bound pattern, invoked once with x, with no dispose and
\* no failure, completes with exactly the result the bound function produces
\* for x; also when the call is made from inside another bound resource.
C1_CallReturnsBoundResult ==
    \A r \in DOMAIN runs :
        (runs[r].pc = "done" /\ Undisturbed(r)) =>
            /\ runs[r].status = "returned"
            /\ runs[r].result =
                 Computes(ElementFn(registry, FirstMatch(handles[runs[r].h].pattern)),
                          runs[r].arg)

\* TestSvc returned {sum: 3}, computed by Adder called from inside TestSvc
C1_Witness ==
    \E p, c \in DOMAIN runs :
        /\ handles[runs[p].h].pattern = TestSvc
        /\ handles[runs[c].h].parent = p
        /\ runs[c].status = "returned" /\ Undisturbed(c)
        /\ runs[p].status = "returned" /\ Undisturbed(p)
        /\ runs[p].result = [sum |-> 3]

\* C2: once an attempt of run() has raised a fatal error, run() makes no
\* further attempt (no resolve, getAtom or invocation after it) and ends with
\* that same error.
C2_FatalErrorEndsRun ==
    \A r \in DOMAIN runs : \A i \in 1..Len(runs[r].errs) :
        ~isTransientError(runs[r].errs[i]) =>
            /\ runs[r].attempt = i
            /\ runs[r].pc = "done" => /\ runs[r].status = "threw"
                                      /\ runs[r].error = runs[r].errs[i]

\* C3: when B, called by A through context.find, raises a fatal error, the
\* call to B's handle fails with that error and A's invocation does not
\* succeed.
C3_NestedFatalPropagates ==
    \A c \in DOMAIN runs :
        LET p == handles[runs[c].h].parent
        IN (p # 0 /\ \E i \in 1..Len(runs[c].errs) : runs[c].errs[i] = AppFatalError) =>
              /\ runs[c].status = "threw"
              /\ runs[c].error = AppFatalError
              /\ runs[p].status # "returned"

\* C4: an invocation of a handle that was disposed before it never calls the
\* resolver or getAtom, never returns a result, and can only end with
\* EarlyDisposalError (never UnresolvedPatternError), bound pattern or not.
C4_DisposedHandleFailsEarly ==
    \A r \in DOMAIN runs :
        runs[r].startedDisposed =>
            /\ runs[r].resolveLog = <<>>
            /\ runs[r].nGetAtom = 0
            /\ runs[r].nInvoke = 0
            /\ runs[r].pc \in {"delay", "done"}
            /\ runs[r].status # "returned"
            /\ runs[r].pc = "done" => /\ runs[r].status = "threw"
                                      /\ runs[r].error = EarlyDisposalError

\* the first invocation of a disposed handle whose pattern is bound has failed
C4_Witness ==
    /\ Len(runs) >= 1
    /\ runs[1].startedDisposed
    /\ FirstMatch(handles[runs[1].h].pattern) # 0
    /\ runs[1].pc = "done"
    /\ runs[1].error = EarlyDisposalError

\* the case of C5: unbound at the first resolution, bound at the second, and
\* nothing else goes wrong
UnboundThenBound(r) ==
    /\ Len(runs[r].resolveLog) >= 2
    /\ ~runs[r].resolveLog[1]
    /\ runs[r].resolveLog[2]
    /\ runs[r].errs = <<UnresolvedPatternError>>
    /\ runs[r].disp = NoDisp
    /\ ~runs[r].startedDisposed

\* C5: a run() whose pattern is unbound at its first resolution and bound at
\* its second returns the implementation's result after exactly one retry
\* (two resolve calls, one transientError notification, one invocation); no
\* caller ever sees UnresolvedPatternError.
C5_OneRetryThenResult ==
    /\ \A r \in DOMAIN runs : runs[r].error # UnresolvedPatternError
    /\ \A r \in DOMAIN runs :
        UnboundThenBound(r) =>
            /\ Len(runs[r].resolveLog) = 2
            /\ runs[r].nTransient = 1
            /\ runs[r].nInvoke <= 1
            /\ runs[r].pc = "done" =>
                  /\ runs[r].status = "returned"
                  /\ runs[r].nInvoke = 1
                  /\ runs[r].result =
                       Computes(ElementFn(registry, FirstMatch(handles[runs[r].h].pattern)),
                                runs[r].arg)

C5_Witness ==
    \E r \in DOMAIN runs : UnboundThenBound(r) /\ runs[r].status = "returned"

RunsOf(h) == {r \in DOMAIN runs : runs[r].h = h}
AcqsOf(h) == {a \in DOMAIN acqs : acqs[a].h = h}

\* the case of C6: the handle's invocations did not overlap, none of them
\* failed, and the handle was not disposed
QuietHandle(h) ==
    /\ ~handles[h].overlap
    /\ ~handles[h].disposed
    /\ \A r \in RunsOf(h) : runs[r].errs = <<>>

\* C6: sequential invocations of one handle, with no failure and no dispose,
\* call resolver.resolve at most once and Element.getAtom at most once in
\* total, and every invocation executes the same AtomImpl.
C6_CacheReusedAcrossCalls ==
    \A h \in DOMAIN handles :
        QuietHandle(h) =>
            /\ \A r \in RunsOf(h) : Len(runs[r].resolveLog) <= 1
            /\ Cardinality({r \in RunsOf(h) : runs[r].resolveLog # <<>>}) <= 1
            /\ Cardinality(AcqsOf(h)) <= 1
            /\ \A r1, r2 \in RunsOf(h) :
                  (runs[r1].nInvoke > 0 /\ runs[r2].nInvoke > 0) =>
                      runs[r1].atomImpl = runs[r2].atomImpl

\* two invocations of a quiet handle have both returned
C6_Witness ==
    \E h \in DOMAIN handles :
        /\ QuietHandle(h)
        /\ \E r1, r2 \in RunsOf(h) :
              /\ r1 # r2
              /\ runs[r1].status = "returned"
              /\ runs[r2].status = "returned"

\* an attempt of run r fails in this step
Fails(r) == Len(runs'[r].errs) > Len(runs[r].errs)

C8_DisposeDuringAcquisition ==
    /\ \A a \in DOMAIN acqs : ~acqs[a].afterDispose
    /\ \A r \in DOMAIN runs :
        LET h == runs[r].h
            a == runs[r].atomImpl
        IN /\ (runs[r].disp.pc = "getAtom" /\ runs[r].pc # "getAtom") =>
                 /\ acqs[a].released = 1
                 /\ acqs[a].invoked = 0
                 /\ handles[h].atomImpl = 0
                 /\ runs[r].pc \in {"delay", "done"}
                 /\ runs[r].pc = "done" => /\ runs[r].status = "threw"
                                           /\ runs[r].error = EarlyDisposalError
           /\ runs[r].disp.pc = "resolve" =>
                 /\ handles[h].element = 0
                 /\ runs[r].pc \in {"resolve", "delay", "done"}
                 /\ runs[r].nInvoke = Cardinality({i \in 1..Len(runs[r].errs) :
                        runs[r].errs[i] \in {AppFatalError, AppTransientError}})
                 /\ runs[r].pc = "done" => /\ runs[r].status = "threw"
                                           /\ runs[r].error = EarlyDisposalError

\* a run disposed of while in getAtom has failed with EarlyDisposalError
C8_Witness ==
    \E r \in DOMAIN runs :
        /\ runs[r].disp.pc = "getAtom"
        /\ runs[r].error = EarlyDisposalError
        /\ acqs[runs[r].atomImpl].released = 1

\* C9: a dispose() that occurs while the implementation is executing does not
\* take the result away: when the invocation completes successfully run()
\* returns the computed result, and the cache then holds no AtomImpl.
C9_DisposeDuringInvokeKeepsResult ==
    \A r \in DOMAIN runs :
        (/\ runs[r].disp.pc = "invoke"
         /\ runs[r].pc = "done"
         /\ Len(runs[r].errs) = runs[r].disp.nerr) =>
            /\ runs[r].status = "returned"
            /\ runs[r].result =
                 Computes(ElementFn(registry, acqs[runs[r].atomImpl].element),
                          runs[r].arg)
            /\ handles[runs[r].h].atomImpl = 0

C9_Witness ==
    \E r \in DOMAIN runs :
        /\ runs[r].disp.pc = "invoke"
        /\ runs[r].status = "returned"
        /\ runs[r].result = [sum |-> 3]

\* C10: when dispose() is called while the only invocation of the handle is
\* executing the AtomImpl, the AtomImpl's release function is not called
\* while that invocation is still in flight.
C10_ReleaseDeferredToCompletion ==
    \A r \in DOMAIN runs :
        (/\ runs[r].pc = "invoke"
         /\ runs[r].disp.pc = "invoke"
         /\ ~handles[runs[r].h].overlap) =>
            acqs[runs[r].atomImpl].released = 0

\* a transient error among the errors of the attempts of run r
TransientErrs(r) == {i \in 1..Len(runs[r].errs) : isTransientError(runs[r].errs[i])}

RECURSIVE Depth(_)
Depth(h) == IF handles[h].parent = 0 THEN 0 ELSE 1 + Depth(runs[handles[h].parent].h)

DomainCall(name) == [type |-> DOMAIN_CALL, resolvedName |-> name]

C14_OwnerTraceNeverMutated ==
    /\ [][\A h \in DOMAIN handles : handles'[h].trace = handles[h].trace]_vars
    /\ [][\A r \in DOMAIN runs :
            runs'[r].nInvoke > runs[r].nInvoke =>
                runs'[r].trace.id # runs[r].trace.id]_vars
    /\ [](\A r1 \in DOMAIN runs :
            runs[r1].nInvoke > 0 =>
                /\ runs[r1].trace.id # handles[runs[r1].h].trace.id
                /\ handles[runs[r1].h].parent = 0 =>
                       handles[runs[r1].h].trace = RootTrace
                /\ \A r2 \in DOMAIN runs \ {r1} :
                       runs[r2].nInvoke > 0 => runs[r2].trace.id # runs[r1].trace.id)

\* two invocations of one handle are executing at the same time, and each
\* has found a handle on the Context it was given
C14_Witness ==
    \E r1, r2 \in DOMAIN runs :
        /\ r1 # r2
        /\ runs[r1].h = runs[r2].h
        /\ runs[r1].pc = "invoke" /\ runs[r2].pc = "invoke"
        /\ handles[runs[r1].h].trace = RootTrace
        /\ runs[r1].child # 0 /\ runs[r2].child # 0
        /\ handles[runs[r1].child].trace = runs[r1].trace
        /\ handles[runs[r2].child].trace = runs[r2].trace

\* the value rule of the claims: a record against a record by matches, an
\* array against an array position by position, anything else by ===
SameScalar(c, p) == c.t = p.t /\ c.v = p.v

ElementRule(c, p) ==
    /\ p.t = "o" => (c.t = "o" /\ matches(c.v, p.v))
    /\ p.t = "a" => (c.t = "a" /\ matchesArrayPattern(c.v, p.v))
    /\ p.t \in {"s", "i", "b", "n"} => SameScalar(c, p)

PositionByPosition(arr, pattern) ==
    /\ Len(arr) = Len(pattern)
    /\ \A i \in 1..Len(pattern) : ElementRule(arr[i], pattern[i])

\* C15: matches(C, P) is true exactly when every key k of P exists in C and
\* C[k] agrees with P[k]: a record with a record that matches it, an array
\* with an array position by position, a scalar or null with a strictly
\* equal value.
C15_MatchesIffEveryKeyMatches ==
    (probe.op = "matches" /\ probe.done) =>
        LET C == probe.name
            P == probe.pattern
        IN probe.result <=>
              \A k \in DOMAIN P :
                  /\ k \in DOMAIN C
                  /\ P[k].t = "o" => (C[k].t = "o" /\ matches(C[k].v, P[k].v))
                  /\ P[k].t = "a" => (C[k].t = "a" /\ PositionByPosition(C[k].v, P[k].v))
                  /\ P[k].t \in {"s", "i", "b", "n"} => SameScalar(C[k], P[k])

\* a name with more keys than the pattern, nested in a record, was matched
C15_Witness ==
    /\ probe.op = "matches" /\ probe.done /\ probe.result
    /\ probe.pattern = [k |-> Obj([a |-> Str("x")])]
    /\ probe.name = [k |-> Obj([a |-> Str("x"), b |-> Num(1)]), m |-> Str("x")]

\* the names got from C by adding one key, at the top or in the record under k
AddKey(C) ==
    (IF "m" \in DOMAIN C THEN {} ELSE {C @@ ("m" :> v) : v \in Scalars})
    \cup (IF "k" \in DOMAIN C THEN {} ELSE {C @@ ("k" :> v) : v \in Values})
    \cup (IF "k" \in DOMAIN C /\ C["k"].t = "o"
          THEN {[C EXCEPT !["k"] = Obj(C["k"].v @@ (key :> v))] :
                  key \in {"a", "b", "c"} \ DOMAIN C["k"].v, v \in InnerValues}
          ELSE {})

\* C16: the empty pattern matches every name, and a name that matches still
\* matches after keys the pattern lacks are added to it, at the top level or
\* inside a nested record the pattern constrains.
C16_PartialMatching ==
    (probe.op = "matches" /\ probe.done) =>
        /\ probe.pattern = EmptyRecord => probe.result
        /\ probe.result => \A C2 \in AddKey(probe.name) : matches(C2, probe.pattern)

\* a name matched a pattern that constrains its nested record, and the
\* record can still take a key
C16_Witness ==
    /\ probe.op = "matches" /\ probe.done /\ probe.result
    /\ probe.pattern = [k |-> Obj([a |-> Num(1)])]
    /\ probe.name = [k |-> Obj([a |-> Num(1)])]
    /\ AddKey(probe.name) # {}

\* C17: an array in the pattern matches only an array of the same length,
\* position by position (records by the record rule, scalars by strict
\* equality): never a longer or a shorter array, never a value that is not
\* an array.
C17_ArraysMatchByPosition ==
    (probe.op = "matches" /\ probe.done
        /\ "k" \in DOMAIN probe.pattern /\ probe.pattern["k"].t = "a") =>
        LET C == probe.name
            P == probe.pattern
        IN /\ probe.result =>
                 /\ "k" \in DOMAIN C
                 /\ C["k"].t = "a"
                 /\ Len(C["k"].v) = Len(P["k"].v)
                 /\ \A i \in 1..Len(P["k"].v) : ElementRule(C["k"].v[i], P["k"].v[i])
           /\ ("k" \in DOMAIN C /\ DOMAIN P = {"k"} /\ C["k"].t = "a"
                  /\ PositionByPosition(C["k"].v, P["k"].v)) => probe.result

\* a two-element array was refused by the pattern that is its one-element
\* prefix
C17_Witness ==
    /\ probe.op = "matches" /\ probe.done /\ ~probe.result
    /\ probe.pattern = [k |-> Arr(<<Str("x")>>)]
    /\ probe.name = [k |-> Arr(<<Str("x"), Null>>)]

\* C18: register always appends a Registration (no deduplication, the
\* registrations there are and their names stay as they are), and
\* match(pattern) returns exactly the registrations whose name matches the
\* pattern, each once, in registration order.
C18_RegisterAppendsMatchInOrder ==
    /\ Len(registry) = Len(probe.calls)
    /\ \A i \in 1..Len(registry) : registry[i].name = probe.calls[i].name
    /\ probe.op = "match" =>
          LET res == probe.result
          IN /\ \A j \in 1..Len(res) :
                    /\ res[j] \in 1..probe.at
                    /\ matches(registry[res[j]].name, probe.pattern)
             /\ \A i \in 1..probe.at :
                    matches(registry[i].name, probe.pattern) =>
                        Cardinality({j \in 1..Len(res) : res[j] = i}) = 1
             /\ \A j1, j2 \in 1..Len(res) : j1 < j2 => res[j1] < res[j2]

\* the same name was registered twice and match returned both registrations
C18_Witness ==
    /\ Len(registry) = 2
    /\ registry[1].name = Adder /\ registry[2].name = Adder
    /\ probe.op = "match" /\ probe.pattern = [svc |-> Str("math")]
    /\ probe.result = <<1, 2>>

\* registration i matches the pattern and passes the filter of the call
Eligible(i) ==
    /\ matches(registry[i].name, probe.pattern)
    /\ (probe.filter = "local" => "local" \in DOMAIN registry[i].name)

\* C19: resolve(pattern) returns the earliest registration that matches the
\* pattern and passes the resolver's filter, not-found when there is none;
\* repeated on an unchanged registry it returns the same registration.
C19_ResolveFirstRegistered ==
    probe.op = "resolve" =>
        /\ IF \E i \in 1..probe.at : Eligible(i)
           THEN /\ probe.result \in 1..probe.at
                /\ Eligible(probe.result)
                /\ \A j \in 1..(probe.result - 1) : ~Eligible(j)
           ELSE probe.result = 0
        /\ probe.prev # -1 => probe.result = probe.prev

\* two registrations match, the filter refuses none, the first one is
\* returned, a second time too
C19_Witness ==
    /\ probe.op = "resolve" /\ probe.filter = "default"
    /\ probe.at = 2
    /\ Eligible(1) /\ Eligible(2)
    /\ registry[1].element # registry[2].element
    /\ probe.result = 1 /\ probe.prev = 1

\* C20: bind(name, x) registers exactly one Registration under name; an x
\* that has a getAtom function is registered as it is, any other x is
\* wrapped in a FunctionElement, whose getAtom returns x itself whatever the
\* pattern, with a release that does nothing.
C20_BindRegistersElementOrWrapsFunction ==
    /\ Len(registry) = Len(probe.calls)
    /\ \A i \in 1..Len(registry) :
          LET x == probe.calls[i].element
          IN /\ registry[i].name = probe.calls[i].name
             /\ IF x.getAtom = "function"
                THEN registry[i].element = x
                ELSE /\ DOMAIN registry[i].element = {"fn", "name"}
                     /\ registry[i].element.fn = x
    /\ probe.op = "getAtom" =>
          /\ probe.result.fn = probe.calls[probe.index].element
          /\ probe.result.dispose = "no-op"

\* an Element and a plain function are bound, and getAtom of the function's
\* FunctionElement was called with a pattern
C20_Witness ==
    /\ Len(registry) = 2
    /\ probe.calls[1].element.getAtom = "function"
    /\ probe.calls[2].element = AtomFunction("add")
    /\ probe.op = "getAtom" /\ probe.index = 2
    /\ probe.pattern = [svc |-> Str("math")]
    /\ probe.result.fn = AtomFunction("add")


\* C21: Domain.createContext(parent, resolverOverride) builds a Context whose
\* resolver is the override if one is given, else the resolver of the parent
\* Context if a parent is given (so a child Context made without an override
\* has its parent's resolver, also when that is not the domain's default),
\* and the call fails when neither a parent nor a resolver is given.
C21_CreateContextResolverChoice ==
    probe.op = "createContext" =>
        \A i \in 1..Len(probe.calls) :
            LET call == probe.calls[i]
            IN IF call.resolver # Undefined
               THEN call.result.type = "BaseContext"
                    /\ call.result.resolver = call.resolver
               ELSE IF call.parent # 0
               THEN call.result.type = "BaseContext"
                    /\ call.result.resolver = call.parentContext.resolver
               ELSE call.result.type = "Error"


\* the cache and the disposed flag of handle h in the handles hs
CacheOf(hs, h) == <<hs[h].disposed, hs[h].element, hs[h].atomImpl>>

\* a run of handle h has had a resolution that found an Element
Resolved(h) ==
    \E r \in RunsOf(h) : \E i \in 1..Len(runs[r].resolveLog) : runs[r].resolveLog[i]

\* C22: every handle has a Lifecycle of its own, with its own cache and its
\* own disposed flag, also for an identical pattern: a step that changes the
\* flag or the cache of one handle (a dispose, an invocation, a failure, an
\* invalidation) is a step of that handle alone and leaves the flag and the
\* cache of every other handle as they are; a handle that was never invoked
\* has an empty cache; and what a handle caches or executes it has resolved
\* and acquired itself.
C22_HandlesIndependent ==
    /\ [][\A h \in DOMAIN handles :
            CacheOf(handles', h) # CacheOf(handles, h) =>
                /\ \A g \in DOMAIN handles \ {h} :
                       CacheOf(handles', g) = CacheOf(handles, g)
                /\ \A r \in DOMAIN runs : runs[r].h # h => runs'[r] = runs[r]
                /\ Len(runs') > Len(runs) => runs'[Len(runs')].h = h]_vars
    /\ [](\A h \in DOMAIN handles :
            /\ RunsOf(h) = {} => (handles[h].element = 0 /\ handles[h].atomImpl = 0)
            /\ handles[h].element # 0 => Resolved(h)
            /\ handles[h].atomImpl # 0 => acqs[handles[h].atomImpl].h = h
            /\ \A r \in RunsOf(h) :
                   runs[r].nInvoke > 0 =>
                       /\ Resolved(h)
                       /\ acqs[runs[r].atomImpl].h = h)

\* two handles on the same pattern have both returned a result; the first
\* was disposed then, the second still holds its Element and AtomImpl
C22_Witness ==
    \E h1, h2 \in DOMAIN handles :
        /\ h1 # h2
        /\ handles[h1].pattern = handles[h2].pattern
        /\ handles[h1].disposed /\ handles[h1].element = 0
        /\ ~handles[h2].disposed
        /\ handles[h2].element # 0 /\ handles[h2].atomImpl # 0
        /\ \E r1 \in RunsOf(h1) : runs[r1].status = "returned"
        /\ \E r2 \in RunsOf(h2) : runs[r2].status = "returned"


\* C23: disposal is monotonic and idempotent: no step sets the disposed flag
\* of a handle back to false; the cache of a disposed handle stays empty; and
\* a dispose() of a handle that is disposed already changes neither a
\* lifecycle (flag, cache) nor a run's position, and releases no AtomImpl.
C23_DisposalMonotonicIdempotent ==
    /\ [][\A h \in DOMAIN handles : handles[h].disposed => handles'[h].disposed]_vars
    /\ [][\A h \in Roots :
            (handles[h].disposed /\ Dispose(h)) =>
                /\ handles' = handles
                /\ acqs' = acqs
                /\ \A r \in DOMAIN runs :
                       [runs'[r] EXCEPT !.disp = runs[r].disp] = runs[r]]_vars
    /\ [](\A h \in DOMAIN handles :
            handles[h].disposed =>
                (handles[h].element = 0 /\ handles[h].atomImpl = 0))

\* a handle was disposed while it held an AtomImpl, which was released once;
\* it was invoked after that and then disposed a second time
C23_Witness ==
    \E h \in DOMAIN handles : \E a \in DOMAIN acqs : \E r \in DOMAIN runs :
        /\ handles[h].disposed
        /\ acqs[a].h = h /\ acqs[a].invoked > 0 /\ acqs[a].released = 1
        /\ runs[r].h = h
        /\ runs[r].startedDisposed /\ runs[r].disp # NoDisp


\* the thrown value has a property isTransient that is truthy
TruthyMarker(err) == err.isTransient.t # "absent" /\ Boolean(err.isTransient)

\* C24 as stated: any thrown value with a truthy isTransient marker is
\* classified transient, whatever its type; UnresolvedPatternError is always
\* transient, EarlyDisposalError always fatal, and every thrown value
\* without a truthy marker is fatal.
C24_TransientByMarkerAnyValue ==
    (probe.op = "isTransientError" /\ probe.done) =>
        /\ TruthyMarker(probe.err) => probe.result
        /\ probe.err = UnresolvedPatternError => probe.result
        /\ probe.err = EarlyDisposalError => ~probe.result
        /\ ~TruthyMarker(probe.err) => ~probe.result

\* C24 (amended): a thrown value that is an instance of Error and has a
\* truthy isTransient marker is classified transient, whatever its class; a
\* thrown value that is not an instance of Error is fatal whatever marker it
\* carries; UnresolvedPatternError is always transient, EarlyDisposalError
\* always fatal, and every thrown value without a truthy marker is fatal.
C24_TransientByMarkerOnErrors ==
    (probe.op = "isTransientError" /\ probe.done) =>
        /\ (probe.err.instanceofError /\ TruthyMarker(probe.err)) => probe.result
        /\ ~probe.err.instanceofError => ~probe.result
        /\ probe.err = UnresolvedPatternError => probe.result
        /\ probe.err = EarlyDisposalError => ~probe.result
        /\ ~TruthyMarker(probe.err) => ~probe.result

\* an Error of a class the runtime does not know, marked with a truthy value
\* that is not `true`, was classified transient
C24_Witness ==
    /\ probe.op = "isTransientError" /\ probe.done
    /\ probe.err = Thrown("TypeError", "app", TRUE, Num(1))
    /\ probe.result


\* the registry a domain owns, and whether a pattern is bound in it
DomainRegistry(domain) == IF domain = LocalDomain THEN registry ELSE otherRegistry

BoundIn(domain, pattern) ==
    \E i \in 1..Len(DomainRegistry(domain)) :
        matches(DomainRegistry(domain)[i].name, pattern)

\* C25: with the default resolvers a handle made through a domain (by its
\* ingress or by one of its Contexts) resolves in that domain's registry
\* only: every Element it resolves, acquires or invokes is a Registration of
\* its own domain under a name that matches its pattern, and a pattern that
\* is bound in another domain only is never resolved, acquired or invoked;
\* the registrations of the two registries stay apart.
C25_DomainIsolation ==
    /\ \A h \in DOMAIN handles :
          /\ handles[h].context.domain = handles[h].domain
          /\ handles[h].context.resolver.registry = handles[h].domain
    /\ \A r \in DOMAIN runs :
          LET h == runs[r].h
              own == DomainRegistry(handles[h].domain)
          IN /\ ~BoundIn(handles[h].domain, handles[h].pattern) =>
                    /\ \A i \in 1..Len(runs[r].resolveLog) : ~runs[r].resolveLog[i]
                    /\ runs[r].nGetAtom = 0
                    /\ runs[r].nInvoke = 0
                    /\ runs[r].status # "returned"
             /\ runs[r].element # 0 =>
                    /\ runs[r].element \in 1..Len(own)
                    /\ matches(own[runs[r].element].name, handles[h].pattern)
             /\ runs[r].pc = "invoke" =>
                    Invoking(r, own[acqs[runs[r].atomImpl].element].element.fn.id)
    /\ \A i \in 1..Len(registry) : \A j \in 1..Len(otherRegistry) :
          registry[i] # otherRegistry[j]
    /\ \A i \in 1..Len(registry) : registry[i].name = TestSvc
    /\ \A j \in 1..Len(otherRegistry) : otherRegistry[j].name = Adder

\* TestSvc, invoked in the first domain, looked for Adder, which is bound in
\* the second domain only: the resolution found nothing
C25_Witness ==
    \E r \in DOMAIN runs :
        LET h == runs[r].h
        IN /\ handles[h].parent # 0
           /\ handles[h].domain = LocalDomain
           /\ handles[h].pattern = Adder
           /\ BoundIn(OtherDomain, Adder)
           /\ ~BoundIn(LocalDomain, Adder)
           /\ runs[r].errs = <<UnresolvedPatternError>>


\* C26: every call externalize(pattern) of a domain's ingress makes one new
\* handle, on a new Lifecycle (not disposed, nothing cached) for the pattern
\* given, on a new root Context of that domain: no parent Context, the
\* domain's ingress resolver, an empty trace in an array no other root
\* Context has; the call itself starts no run and acquires nothing, and
\* leaves the handles there are as they are.
C26_ExternalizeMakesRootHandle ==
    /\ [](probe.op = "externalize" =>
            /\ Len(handles) = Len(probe.calls)
            /\ \A h \in DOMAIN handles :
                  /\ handles[h].pattern = probe.calls[h].pattern
                  /\ handles[h].domain = probe.calls[h].domain
                  /\ handles[h].parent = 0
                  /\ handles[h].context.type = "BaseContext"
                  /\ handles[h].context.domain = probe.calls[h].domain
                  /\ handles[h].context.parentContext = Undefined
                  /\ handles[h].context.resolver =
                         RegistryResolver(probe.calls[h].domain, "default")
                  /\ handles[h].trace.events = <<>>
                  /\ \A g \in DOMAIN handles \ {h} :
                         handles[g].trace.id # handles[h].trace.id)
    /\ [][Len(handles') > Len(handles) =>
            /\ Len(handles') = Len(handles) + 1
            /\ ~handles'[Len(handles')].disposed
            /\ handles'[Len(handles')].element = 0
            /\ handles'[Len(handles')].atomImpl = 0
            /\ \A h \in DOMAIN handles : handles'[h] = handles[h]
            /\ runs' = runs
            /\ acqs' = acqs]_vars

\* the first handle has resolved, acquired and returned a result; a second
\* handle, taken for the same pattern from the same ingress, has an empty
\* cache and no run
C26_Witness ==
    /\ probe.op = "externalize"
    /\ Len(handles) = 2
    /\ probe.calls[1] = probe.calls[2]
    /\ handles[1].element # 0 /\ handles[1].atomImpl # 0
    /\ \E r \in RunsOf(1) : runs[r].status = "returned"
    /\ handles[2].element = 0 /\ handles[2].atomImpl = 0
    /\ RunsOf(2) = {}


\* run r called resolver.resolve and Element.getAtom in an attempt that has
\* not failed
ResolvedAndAcquired(r) ==
    /\ runs[r].errs = <<>>
    /\ runs[r].resolveLog = <<TRUE>>
    /\ runs[r].nGetAtom = 1

\* C27: run() calls on one handle are not serialised.  Every run that finds
\* the cache empty calls resolver.resolve, and having resolved calls
\* Element.getAtom, whatever other runs of the handle do meanwhile; a write
\* to the cache that replaces an AtomImpl releases it, so an AtomImpl that
\* was written to the cache is either still cached or released, also while
\* an invocation is executing it.
C27_OverlappingRunsReleaseEachOther ==
    /\ [][\A h \in DOMAIN handles :
            LET a == handles[h].atomImpl
            IN (a # 0 /\ handles'[h].atomImpl # a) =>
                   acqs'[a].released = acqs[a].released + 1]_vars
    /\ [][\A r \in DOMAIN runs :
            (/\ runs[r].pc = "delay"
             /\ runs'[r].attempt > runs[r].attempt
             /\ handles[runs[r].h].element = 0) => runs'[r].pc = "resolve"]_vars
    /\ [][\A r \in DOMAIN runs :
            (/\ runs[r].pc = "resolve"
             /\ runs'[r].pc # "resolve"
             /\ Len(runs'[r].errs) = Len(runs[r].errs)) =>
                   /\ runs'[r].pc = "getAtom"
                   /\ runs'[r].nGetAtom = runs[r].nGetAtom + 1]_vars
    /\ [](\A a \in DOMAIN acqs :
            /\ handles[acqs[a].h].atomImpl = a => acqs[a].released = 0
            /\ (acqs[a].invoked > 0 /\ handles[acqs[a].h].atomImpl # a) =>
                   acqs[a].released >= 1)

\* two runs of one handle both found the cache empty, both resolved and both
\* called getAtom; the second write to the cache released the AtomImpl of
\* the first, whose invocation is still executing it
C27_Witness ==
    \E r1, r2 \in DOMAIN runs :
        LET h == runs[r1].h
        IN /\ r1 # r2
           /\ runs[r2].h = h
           /\ ~handles[h].disposed
           /\ ResolvedAndAcquired(r1) /\ ResolvedAndAcquired(r2)
           /\ runs[r1].pc = "invoke" /\ runs[r2].pc = "invoke"
           /\ runs[r1].atomImpl # runs[r2].atomImpl
           /\ handles[h].atomImpl = runs[r2].atomImpl
           /\ acqs[runs[r1].atomImpl].released = 1

\* C28: an AtomImpl is owned by one lifecycle: no two lifecycles hold the
\* same AtomImpl object in their caches.
C28_AtomImplOwnedByOneLifecycle ==
    \A h1, h2 \in DOMAIN handles :
        (/\ h1 # h2
         /\ handles[h1].atomImpl # 0
         /\ handles[h2].atomImpl # 0) =>
            AtomImplObject(handles[h1].atomImpl) # AtomImplObject(handles[h2].atomImpl)

\* C29: for as long as a lifecycle holds an AtomImpl, its requestedPattern
\* is the pattern given to the getAtom call that produced it, whatever
\* getAtom calls other lifecycles make on the same Element.
C29_RequestedPatternStaysAsAcquired ==
    \A h \in DOMAIN handles :
        LET a == handles[h].atomImpl
        IN a # 0 => AtomImpl_requestedPattern(a) = acqs[a].requestedPattern

\* C30: the registry is written by bind/register only.  A step of a run
\* (whatever the outcome of the attempt), a dispose, a find, an externalize,
\* a match or a resolve leaves the registrations of both domains as they
\* were; and when the registry does change, one registration has been
\* appended and the ones before it are unchanged.
C30_RegistryWrittenOnlyByBind ==
    /\ [][(runs' # runs \/ handles' # handles \/ acqs' # acqs \/ probe' # probe) =>
              (registry' = registry /\ otherRegistry' = otherRegistry)]_vars
    /\ [][registry' # registry =>
              /\ Len(registry') = Len(registry) + 1
              /\ SubSeq(registry', 1, Len(registry)) = registry]_vars

\* Adder was bound after the handle on TestSvc was taken; a run of the
\* handle resolved TestSvc and Adder, found and released its own handle on
\* Adder and returned, and the two registrations are there as bound
C30_Witness ==
    /\ Len(registry) = 2
    /\ registry[1].name = TestSvc
    /\ registry[2].name = Adder
    /\ \E r \in DOMAIN runs :
           /\ handles[runs[r].h].parent = 0
           /\ runs[r].status = "returned"
           /\ handles[runs[r].child].disposed

\* C31: an error thrown by the release function of an AtomImpl reaches
\* nobody.  A dispose() returns normally and leaves the cache empty; the
\* catch block of run() finishes invalidating the cache; and a run ends as it
\* would with a release that works: with the implementation's result or with
\* EarlyDisposalError, having seen only the errors of the implementation and
\* of the disposal checks.
C31_ReleaseErrorNeverPropagates ==
    /\ [](\A h \in DOMAIN handles : handles[h].disposeError = NoError)
    /\ [][\A h \in DOMAIN handles :
            (~handles[h].disposed /\ handles'[h].disposed) =>
                (handles'[h].element = 0 /\ handles'[h].atomImpl = 0)]_vars
    /\ [][\A r \in DOMAIN runs :
            Len(runs'[r].errs) > Len(runs[r].errs) =>
                /\ handles'[runs[r].h].element = 0
                /\ handles'[runs[r].h].atomImpl = 0
                /\ runs'[r].pc = "delay"]_vars
    /\ [](\A r \in DOMAIN runs :
            /\ \A i \in 1..Len(runs[r].errs) :
                   runs[r].errs[i] \in {AppFatalError, AppTransientError,
                                        EarlyDisposalError}
            /\ runs[r].status = "threw" => runs[r].error = EarlyDisposalError
            /\ runs[r].status = "returned" =>
                   runs[r].result \in {[sum |-> runs[r].arg.a + runs[r].arg.b],
                                       [sum |-> 0]})

\* the implementation failed once and the catch block released the first
\* AtomImpl; the handle was disposed during the second invocation, which
\* released the second; both releases threw, and the run returned the result
C31_Witness ==
    /\ Len(acqs) = 2
    /\ \A a \in DOMAIN acqs : acqs[a].dispose = "throws" /\ acqs[a].released = 1
    /\ handles[1].disposed
    /\ handles[1].element = 0 /\ handles[1].atomImpl = 0
    /\ \E r \in DOMAIN runs :
           /\ runs[r].status = "returned"
           /\ Len(runs[r].errs) = 1
           /\ runs[r].disp.pc = "invoke"

\* C32: a disposed lifecycle has an empty cache: in every state, whatever
\* runs of the handle are suspended or resume, disposed implies that neither
\* an Element nor an AtomImpl is cached.
C32_DisposedCacheEmpty ==
    \A h \in DOMAIN handles :
        handles[h].disposed => (handles[h].element = 0 /\ handles[h].atomImpl = 0)

\* the handle was disposed while a run was waiting for resolver.resolve and
\* another for Element.getAtom; both have resumed since, and the cache is
\* empty
C32_Witness ==
    /\ handles[1].disposed
    /\ handles[1].element = 0 /\ handles[1].atomImpl = 0
    /\ \E r1, r2 \in DOMAIN runs :
           /\ runs[r1].h = 1 /\ runs[r2].h = 1
           /\ runs[r1].disp.pc = "resolve" /\ runs[r1].resolveLog = <<TRUE>>
           /\ runs[r2].disp.pc = "getAtom"
           /\ runs[r1].pc \notin {"resolve"}
           /\ runs[r2].pc \notin {"getAtom"}

\* C33: once dispose() has been called on a handle its lifecycle starts no
\* Element.getAtom call and no invocation of an AtomImpl, neither in a run
\* that was suspended when dispose came nor in a run begun afterwards.
C33_NothingStartedAfterDispose ==
    /\ \A a \in DOMAIN acqs : ~acqs[a].afterDispose /\ ~acqs[a].invokedAfterDispose
    /\ \A r \in DOMAIN runs :
           runs[r].startedDisposed => (runs[r].nGetAtom = 0 /\ runs[r].nInvoke = 0)

\* the handle was disposed while one run was waiting for resolver.resolve,
\* which had found the Element; that run and a run begun after the dispose
\* have both ended without a getAtom call or an invocation
C33_Witness ==
    \E r1, r2 \in DOMAIN runs :
        /\ runs[r1].disp.pc = "resolve"
        /\ runs[r1].resolveLog = <<TRUE>>
        /\ runs[r1].pc = "done"
        /\ runs[r2].startedDisposed
        /\ runs[r2].pc = "done"
        /\ runs[r2].h = runs[r1].h
        /\ acqs = <<>>

\* C34: the cache goes idle -> resolved -> acquired: in every state a
\* cached AtomImpl implies a cached Element, and the cached AtomImpl was
\* produced by the cached Element.
C34_CacheOrder ==
    \A h \in DOMAIN handles :
        handles[h].atomImpl # 0 =>
            /\ handles[h].element # 0
            /\ acqs[handles[h].atomImpl].element = handles[h].element

\* C35: the release function of an AtomImpl is called at most once for
\* every acquisition (every getAtom result), however runs, failures, cache
\* replacements and dispose are interleaved.
C35_ReleasedAtMostOnce ==
    \A a \in DOMAIN acqs : acqs[a].released <= 1

\* two overlapping runs acquired; the second acquisition replaced the first
\* in the cache, a failure then cleared the cache, and the handle was
\* disposed after that: each acquisition was released once
C35_Witness ==
    /\ Len(acqs) = 2
    /\ acqs[1].r # acqs[2].r
    /\ acqs[1].released = 1 /\ acqs[2].released = 1
    /\ \E r \in DOMAIN runs : runs[r].errs # <<>> /\ runs[r].disp.nerr = 1
    /\ handles[1].disposed

\* C36: no leak: when a handle has been disposed and every run() on it has
\* terminated, every AtomImpl its lifecycle ever got from getAtom has been
\* released, exactly once.
C36_NoLeakAfterDispose ==
    \A h \in DOMAIN handles :
        (/\ handles[h].disposed
         /\ \A r \in DOMAIN runs : runs[r].h = h => runs[r].pc = "done") =>
            \A a \in DOMAIN acqs : acqs[a].h = h => acqs[a].released = 1

\* dispose came while one run was executing the cached AtomImpl and another
\* was waiting for getAtom: the first AtomImpl was released by dispose, the
\* second by the run that lost the race, and both runs have terminated
C36_Witness ==
    /\ handles[1].disposed
    /\ \A r \in DOMAIN runs : runs[r].pc = "done"
    /\ Len(acqs) = 2
    /\ \A a \in DOMAIN acqs : acqs[a].released = 1
    /\ \E r1, r2 \in DOMAIN runs :
           /\ runs[r1].disp.pc = "invoke" /\ runs[r1].status = "returned"
           /\ runs[r2].disp.pc = "getAtom" /\ runs[r2].error = EarlyDisposalError

C38_ResolutionStableUnderBinds ==
    (probe.op = "resolve" /\ probe.result # 0) =>
        /\ resolveFiltered(registry, probe.filter, probe.pattern) = probe.result
        /\ registry[probe.result].name = probe.calls[probe.result].name
        /\ \A i \in (probe.at + 1)..Len(registry) : i # probe.result

\* resolve({svc: "math"}) returned the registration of Adder when it was the
\* only one; a binding under a more specific name that matches the pattern
\* too was added afterwards, and resolve still returns the first
C38_Witness ==
    /\ probe.op = "resolve" /\ probe.filter = "default"
    /\ probe.pattern = [svc |-> Str("math")]
    /\ probe.at = 1 /\ probe.result = 1
    /\ Len(registry) = 2
    /\ registry[1].name = Adder
    /\ registry[2].name = LocalAdder
    /\ Eligible(2)
    /\ resolveFiltered(registry, probe.filter, probe.pattern) = 1

\* C39: matches is a preorder that is not symmetric.  With A the name and B
\* the pattern of the call: matches(B, B) holds; if matches(A, B) holds then
\* matches(A, C) holds for every C of the universe with matches(B, C); and
\* there are a name and a pattern that match one way round only.
C39_MatchesPreorderNotSymmetric ==
    /\ probe.done =>
          /\ matches(probe.pattern, probe.pattern)
          /\ probe.name = probe.pattern => probe.result
          /\ probe.result =>
                \A c \in Names : matches(probe.pattern, c) => matches(probe.name, c)
    /\ \E c, p \in {EmptyRecord, [m |-> Str("x")], [k |-> Arr(<<Null>>), m |-> Str("x")]} :
          matches(c, p) /\ ~matches(p, c)

\* the name has a key more than the pattern, and arrays under k that match:
\* the call answered true, and the call the other way round answers false
C39_Witness ==
    /\ probe.op = "matches" /\ probe.done /\ probe.result
    /\ probe.name = [k |-> Arr(<<Obj([a |-> Str("x"), b |-> Num(1)])>>), m |-> Str("x")]
    /\ probe.pattern = [k |-> Arr(<<Obj([a |-> Str("x")])>>)]
    /\ ~matches(probe.pattern, probe.name)
    /\ matches(probe.pattern, EmptyRecord)

====
